---- MODULE Spec2Model ----
(***************************************************************************)
(* openhpca_run: selection of the installed benchmarks to run, construction *)
(* of the experiment set and its bounded-concurrency execution.             *)
(*                                                                          *)
(* The model follows main() of tools/cmd/openhpca_run/openhpca_run.go step  *)
(* by step.  The job runner (validation_tool's Experiments.Run / Wait and   *)
(* Runtime.Fini), the configuration loader and the lists of required       *)
(* benchmarks live outside that file; the runner is modelled from its       *)
(* documented contract, the catalog and the required lists are inputs.      *)
(*                                                                          *)
(* Two specifications share the actions:                                    *)
(*   Spec        the whole of main(), flags drawn from a wide set, the      *)
(*               installation drawn from a few catalogs;                    *)
(*   SpecFilter  main() up to the end of the build loop, the installation   *)
(*               and the required lists drawn from all bounded sequences.   *)
(***************************************************************************)
EXTENDS Integers, Sequences, FiniteSets, TLC

VARIABLES
    flag,                \* the parsed command line (lines 68-77)
    installation,        \* what cfg.DetectInstalledBenchmarks() finds on disk
    RequiredBenchmarks,  \* config.OSURequiredBenchmarks, smb.RequiredBenchmarks, overlap.RequiredBenchmarks
    InstalledBenchmarks, \* cfg.InstalledBenchmarks
    MaxRunningJobs,      \* r.MaxRunningJobs
    Platform,            \* exps.Platform
    benchmarksToRun,     \* benchmarksToRun
    toBuild,             \* keys of benchmarksToRun the range loop of line 209 has not visited
    List,                \* exps.List
    runDir,              \* the run directory: "unchecked", "existing" or "created"
    status,              \* the runner's per-experiment state
    events,              \* the steps main() has completed and the calls it has made, in order
    err,                 \* main()'s err: "nil", or the call that returned the error
    exitCode,            \* the process exit status, NoExit while running
    pc                   \* main()'s position

vars == <<flag, installation, RequiredBenchmarks, InstalledBenchmarks, MaxRunningJobs,
          Platform, benchmarksToRun, toBuild, List, runDir, status, events, err, exitCode, pc>>

(***************************************************************************)
(* Bounds of the model.                                                     *)
(***************************************************************************)
MaxJobs == 2
MaxInstalled == 2
MaxRequired == 2

NoExit == -1

SeqsUpTo(S, n) == UNION {[1..k -> S] : k \in 0..n}

Range(s) == {s[i] : i \in 1..Len(s)}

(***************************************************************************)
(* app.Info, platform.Info, experiments.Experiment                          *)
(***************************************************************************)
AppInfo(name, binPath) ==
    [Name |-> name, BinName |-> name, BinPath |-> binPath, BinArgs |-> <<>>]

\* A nil *platform.Info is the empty sequence, an allocated one a one-element sequence.
NilPlatform == <<>>

PlatformInfo(name, dev, ppr, nodes) ==
    <<[Name |-> name, Device |-> dev, MaxPPR |-> ppr, MaxNumNodes |-> nodes]>>

(***************************************************************************)
(* func experimentIsStrictlyPointToPoint(name string) bool                  *)
(***************************************************************************)
\* Mutant: the names are compared without regard to case.
experimentIsStrictlyPointToPoint_ignoreCase(name) ==
    name \in {"osu_latency", "osu_LATENCY", "OSU_LATENCY", "osu_Latency",
              "osu_noncontig_mem_latency", "osu_bw", "Osu_bw", "osu_noncontig_mem_bw",
              "smb_mpi_overhead"}

experimentIsStrictlyPointToPoint(name) ==
    CASE name = "osu_latency" -> TRUE
      [] name = "osu_noncontig_mem_latency" -> TRUE
      [] name = "osu_bw" -> TRUE
      [] name = "osu_noncontig_mem_bw" -> TRUE
      [] name = "smb_mpi_overhead" -> TRUE
      [] OTHER -> FALSE

(***************************************************************************)
(* Inputs.                                                                  *)
(***************************************************************************)
Suites == {"osu", "smb", "overlap", "imb"}

RequiredSuites == {"osu", "smb", "overlap"}

\* A catalog maps the installed suites to their sub-benchmarks.  An option is
\* <<>> for a suite that is not installed and <<subs>> for one that is.
MkCatalog(opt) ==
    [s \in {t \in DOMAIN opt : opt[t] # <<>>} |-> opt[s][1]]

Absent == <<>>

Present(subs) == <<subs>>

ScenarioCatalog ==
    MkCatalog([osu |-> Present(<<AppInfo("osu_latency", "/osu"), AppInfo("osu_extra", "/osu")>>),
               smb |-> Present(<<AppInfo("smb_mpi_overhead", "/smb")>>),
               overlap |-> Absent,
               imb |-> Absent])

ScenarioRequired ==
    [osu |-> <<"osu_latency">>, smb |-> <<"smb_mpi_overhead">>, overlap |-> <<>>]

DerivedCatalog ==
    MkCatalog([osu |-> Present(<<AppInfo("latency", "/osu"), AppInfo("LATENCY", "/osu")>>),
               smb |-> Present(<<AppInfo("mpi_overhead", "/smb")>>),
               overlap |-> Absent,
               imb |-> Present(<<AppInfo("pingpong", "/imb")>>)])

DerivedRequired ==
    [osu |-> <<"LATENCY", "latency">>, smb |-> <<"mpi_overhead">>, overlap |-> <<>>]

RunCatalogs == {ScenarioCatalog, DerivedCatalog}

RunRequired == {ScenarioRequired, DerivedRequired}

RunFlags ==
    [help : BOOLEAN, maxRunningJobs : (-1)..MaxJobs, ppn : {1, 4}, numNodes : {1, 8},
     p : {"", "batch"}, d : {"", "mlx5_0"}, long : BOOLEAN]

OsuApps == {AppInfo("latency", "/a"), AppInfo("latency", "/b"), AppInfo("bw", "/a")}

OsuNames == {"latency", "bw"}

OneOrNone(name, binPath) == {Absent, Present(<<AppInfo(name, binPath)>>)}

FilterCatalogs ==
    {MkCatalog([osu |-> a, smb |-> b, overlap |-> c, imb |-> d]) :
        a \in {Absent} \cup {Present(l) : l \in SeqsUpTo(OsuApps, MaxInstalled)},
        b \in OneOrNone("mpi_overhead", "/smb"),
        c \in OneOrNone("overlap_ibcast", "/overlap"),
        d \in OneOrNone("pingpong", "/imb")}

FilterRequired ==
    [osu : SeqsUpTo(OsuNames, MaxRequired),
     smb : {<<>>, <<"mpi_overhead">>},
     overlap : {<<>>, <<"overlap_ibcast">>}]

FilterFlags ==
    [help : BOOLEAN, maxRunningJobs : {0, 1}, ppn : {1}, numNodes : {1},
     p : {""}, d : {""}, long : BOOLEAN]

InitWith(flags, catalogs, requireds) ==
    /\ flag \in flags
    /\ installation \in catalogs
    /\ RequiredBenchmarks \in requireds
    /\ InstalledBenchmarks = <<>>
    /\ MaxRunningJobs = 0
    /\ Platform = NilPlatform
    /\ benchmarksToRun = <<>>
    /\ toBuild = {}
    /\ List = <<>>
    /\ runDir = "unchecked"
    /\ status = <<>>
    /\ events = <<>>
    /\ err = "nil"
    /\ exitCode = NoExit
    /\ pc = "help"

Init == InitWith(RunFlags, RunCatalogs, RunRequired)

InitFilter == InitWith(FilterFlags, FilterCatalogs, FilterRequired)

\* os.Exit(code)
Exit(code) ==
    /\ exitCode' = code
    /\ pc' = "exit"

(***************************************************************************)
(* main(), lines 79-132: help, configuration, sanity checks.                *)
(***************************************************************************)
Help ==
    /\ pc = "help"
    /\ flag.help
    /\ Exit(0)
    /\ UNCHANGED <<err, flag, installation, RequiredBenchmarks, InstalledBenchmarks, MaxRunningJobs,
                   Platform, benchmarksToRun, toBuild, List, runDir, status, events>>

NoHelp ==
    /\ pc = "help"
    /\ ~flag.help
    /\ pc' = "load"
    /\ UNCHANGED <<err, flag, installation, RequiredBenchmarks, InstalledBenchmarks, MaxRunningJobs,
                   Platform, benchmarksToRun, toBuild, List, runDir, status, events, exitCode>>

LoadFail ==
    /\ pc = "load"
    /\ err' = "Load"
    /\ Exit(1)
    /\ UNCHANGED <<flag, installation, RequiredBenchmarks, InstalledBenchmarks, MaxRunningJobs,
                   Platform, benchmarksToRun, toBuild, List, runDir, status, events>>

\* cfg.Load() succeeds, then cfg.DetectInstalledBenchmarks()
LoadAndDetect ==
    /\ pc = "load"
    /\ InstalledBenchmarks' = installation
    /\ pc' = "sanity"
    /\ UNCHANGED <<err, flag, installation, RequiredBenchmarks, MaxRunningJobs,
                   Platform, benchmarksToRun, toBuild, List, runDir, status, events, exitCode>>

\* cfg.WP == nil, or cfg.WP.MpiDir does not exist
SanityWorkspaceFail ==
    /\ pc = "sanity"
    /\ Exit(1)
    /\ UNCHANGED <<err, flag, installation, RequiredBenchmarks, InstalledBenchmarks, MaxRunningJobs,
                   Platform, benchmarksToRun, toBuild, List, runDir, status, events>>

\* Mutant: only a negative bound is rejected.
nActiveJobsInvalid_negativeOnly == flag.maxRunningJobs < 0

\* *nActiveJobsFlag <= 0
nActiveJobsInvalid == flag.maxRunningJobs <= 0

SanityJobsFail ==
    /\ pc = "sanity"
    /\ nActiveJobsInvalid
    /\ Exit(1)
    /\ UNCHANGED <<err, flag, installation, RequiredBenchmarks, InstalledBenchmarks, MaxRunningJobs,
                   Platform, benchmarksToRun, toBuild, List, runDir, status, events>>

SanityOk ==
    /\ pc = "sanity"
    /\ ~nActiveJobsInvalid
    /\ pc' = "setup"
    /\ UNCHANGED <<err, flag, installation, RequiredBenchmarks, InstalledBenchmarks, MaxRunningJobs,
                   Platform, benchmarksToRun, toBuild, List, runDir, status, events, exitCode>>

(***************************************************************************)
(* main(), lines 134-149: the runtime and the global platform.              *)
(***************************************************************************)
\* Mutant: the bound handed to the runtime is off by one.
rMaxRunningJobs_offByOne == flag.maxRunningJobs + 1

\* r.MaxRunningJobs = *nActiveJobsFlag
rMaxRunningJobs == flag.maxRunningJobs

\* exps.Platform
expsPlatform == PlatformInfo(flag.p, flag.d, flag.ppn, flag.numNodes)

Setup ==
    /\ pc = "setup"
    /\ MaxRunningJobs' = rMaxRunningJobs
    /\ Platform' = expsPlatform
    /\ pc' = "select"
    /\ UNCHANGED <<err, flag, installation, RequiredBenchmarks, InstalledBenchmarks,
                   benchmarksToRun, toBuild, List, runDir, status, events, exitCode>>

(***************************************************************************)
(* main(), lines 153-198: the benchmarks to run.                            *)
(***************************************************************************)
Min(S) == CHOOSE x \in S : \A y \in S : x <= y

\* Mutant: the inner loop without its break keeps every installed match.
firstMatch_noBreak(name, SubBenchmarks) ==
    SelectSeq(SubBenchmarks, LAMBDA a : a.Name = name)

\* The inner loop of lines 161-166: the first installed sub-benchmark called
\* name, if any (break after the first match).
firstMatch(name, SubBenchmarks) ==
    LET hits == {i \in 1..Len(SubBenchmarks) : SubBenchmarks[i].Name = name}
    IN  IF hits = {} THEN <<>> ELSE <<SubBenchmarks[Min(hits)]>>

\* Mutant: the loops swapped, the installed sub-benchmarks kept in their own order.
keepRequired_installedOrder(required, SubBenchmarks) ==
    SelectSeq(SubBenchmarks, LAMBDA a : \E i \in 1..Len(required) : required[i] = a.Name)

\* The outer loop of lines 160-167: one pass over the required names, in order.
RECURSIVE keepRequired(_, _)
keepRequired(required, SubBenchmarks) ==
    IF required = <<>>
    THEN <<>>
    ELSE firstMatch(Head(required), SubBenchmarks) \o keepRequired(Tail(required), SubBenchmarks)

\* cfg.InstalledBenchmarks[suite] is a nil *benchmark.Install when the suite is
\* not a key of the map; the inner loop's range expression then dereferences
\* nil, once per required name.
nilDereference(suite) ==
    /\ suite \notin DOMAIN InstalledBenchmarks
    /\ RequiredBenchmarks[suite] # <<>>

requiredSubset ==
    [suite \in RequiredSuites |->
        keepRequired(RequiredBenchmarks[suite],
                     IF suite \in DOMAIN InstalledBenchmarks
                     THEN InstalledBenchmarks[suite] ELSE <<>>)]

\* Mutant: the required subset is taken in long mode too.
selectedBenchmarks_alwaysFiltered == requiredSubset

\* The value of benchmarksToRun at line 199.
selectedBenchmarks ==
    IF ~flag.long THEN requiredSubset ELSE InstalledBenchmarks

SelectBenchmarks ==
    /\ pc = "select"
    /\ IF ~flag.long /\ \E suite \in RequiredSuites : nilDereference(suite)
       THEN \* runtime panic: the process exits with status 2
            /\ Exit(2)
            /\ UNCHANGED <<benchmarksToRun, toBuild, events>>
       ELSE /\ benchmarksToRun' = selectedBenchmarks
            /\ toBuild' = DOMAIN selectedBenchmarks
            /\ events' = Append(events, "select")
            /\ pc' = "build"
            /\ UNCHANGED exitCode
    /\ UNCHANGED <<err, flag, installation, RequiredBenchmarks, InstalledBenchmarks, MaxRunningJobs,
                   Platform, List, runDir, status>>

(***************************************************************************)
(* main(), lines 209-228: the experiments.                                  *)
(***************************************************************************)
\* Mutant: the override copies the global ranks-per-node and node count.
experimentPlatform_globalTopology(name) ==
    IF experimentIsStrictlyPointToPoint(name)
    THEN PlatformInfo(Platform[1].Name, Platform[1].Device,
                      Platform[1].MaxPPR, Platform[1].MaxNumNodes)
    ELSE NilPlatform

\* e.Platform of lines 218-224
experimentPlatform(name) ==
    IF experimentIsStrictlyPointToPoint(name)
    THEN PlatformInfo(Platform[1].Name, Platform[1].Device, 1, 2)
    ELSE NilPlatform

\* The body of the inner loop, lines 211-226.
newExperiment(benchmarkName, subBenchmark) ==
    LET name == benchmarkName \o "_" \o subBenchmark.Name
    IN  [Name |-> name,
         App |-> [Name |-> name, BinArgs |-> subBenchmark.BinArgs,
                  BinName |-> subBenchmark.BinName, BinPath |-> subBenchmark.BinPath],
         Platform |-> experimentPlatform(name)]

\* One iteration of the range over the map benchmarksToRun: Go visits the keys
\* in an unspecified order, each once.
BuildSuite ==
    /\ pc = "build"
    /\ \E benchmarkName \in toBuild :
        LET subs == benchmarksToRun[benchmarkName]
        IN  /\ List' = List \o [i \in 1..Len(subs) |-> newExperiment(benchmarkName, subs[i])]
            /\ toBuild' = toBuild \ {benchmarkName}
    /\ UNCHANGED <<err, flag, installation, RequiredBenchmarks, InstalledBenchmarks, MaxRunningJobs,
                   Platform, benchmarksToRun, runDir, status, events, exitCode, pc>>

BuildDone ==
    /\ pc = "build"
    /\ toBuild = {}
    /\ events' = Append(events, "build")
    /\ pc' = "rundir"
    /\ UNCHANGED <<err, flag, installation, RequiredBenchmarks, InstalledBenchmarks, MaxRunningJobs,
                   Platform, benchmarksToRun, toBuild, List, runDir, status, exitCode>>

(***************************************************************************)
(* main(), lines 231-240: the run directory.                                *)
(***************************************************************************)
RunDirExists ==
    /\ pc = "rundir"
    /\ runDir' = "existing"
    /\ events' = Append(events, "rundir")
    /\ pc' = "run"
    /\ UNCHANGED <<err, flag, installation, RequiredBenchmarks, InstalledBenchmarks, MaxRunningJobs,
                   Platform, benchmarksToRun, toBuild, List, status, exitCode>>

RunDirCreate ==
    /\ pc = "rundir"
    /\ runDir' = "created"
    /\ events' = Append(events, "rundir")
    /\ pc' = "run"
    /\ UNCHANGED <<err, flag, installation, RequiredBenchmarks, InstalledBenchmarks, MaxRunningJobs,
                   Platform, benchmarksToRun, toBuild, List, status, exitCode>>

RunDirFail ==
    /\ pc = "rundir"
    /\ err' = "MkdirAll"
    /\ Exit(1)
    /\ UNCHANGED <<flag, installation, RequiredBenchmarks, InstalledBenchmarks, MaxRunningJobs,
                   Platform, benchmarksToRun, toBuild, List, runDir, status, events>>

(***************************************************************************)
(* The runner: exps.Run(r), exps.Wait(r), r.Fini().                         *)
(***************************************************************************)
Terminal == {"completed", "failed"}

running == {i \in DOMAIN status : status[i] = "running"}

\* The runner admits one more experiment while fewer than r.MaxRunningJobs run.
hasCapacity == Cardinality(running) < MaxRunningJobs

allTerminal == \A i \in DOMAIN status : status[i] \in Terminal

\* Run accepted the set: every experiment is queued.
queued == [i \in 1..Len(List) |-> "pending"]

Submit ==
    /\ pc = "wait"
    /\ hasCapacity
    /\ \E i \in DOMAIN status :
        /\ status[i] = "pending"
        /\ status' = [status EXCEPT ![i] = "running"]
    /\ UNCHANGED <<err, flag, installation, RequiredBenchmarks, InstalledBenchmarks, MaxRunningJobs,
                   Platform, benchmarksToRun, toBuild, List, runDir, events, exitCode, pc>>

Complete ==
    /\ pc = "wait"
    /\ \E i \in running : status' = [status EXCEPT ![i] = "completed"]
    /\ UNCHANGED <<err, flag, installation, RequiredBenchmarks, InstalledBenchmarks, MaxRunningJobs,
                   Platform, benchmarksToRun, toBuild, List, runDir, events, exitCode, pc>>

Fail ==
    /\ pc = "wait"
    /\ \E i \in running : status' = [status EXCEPT ![i] = "failed"]
    /\ UNCHANGED <<err, flag, installation, RequiredBenchmarks, InstalledBenchmarks, MaxRunningJobs,
                   Platform, benchmarksToRun, toBuild, List, runDir, events, exitCode, pc>>

(***************************************************************************)
(* main(), lines 241-256: run, wait, finalize, report.                      *)
(***************************************************************************)
\* Mutant: the error of exps.Run(r) is not checked.
RunFail_unchecked ==
    /\ pc = "run"
    /\ events' = Append(events, "Run")
    /\ err' = "Run"
    /\ status' = <<>>
    /\ pc' = "wait"
    /\ UNCHANGED <<flag, installation, RequiredBenchmarks, InstalledBenchmarks, MaxRunningJobs,
                   Platform, benchmarksToRun, toBuild, List, runDir, exitCode>>

\* Mutant: main() does not call exps.Wait(r) before r.Fini().
RunOk_noWait ==
    /\ pc = "run"
    /\ events' = Append(events, "Run")
    /\ status' = queued
    /\ pc' = "fini"
    /\ UNCHANGED <<err, flag, installation, RequiredBenchmarks, InstalledBenchmarks, MaxRunningJobs,
                   Platform, benchmarksToRun, toBuild, List, runDir, exitCode>>

\* err = exps.Run(r); err != nil
RunFail ==
    /\ pc = "run"
    /\ events' = Append(events, "Run")
    /\ err' = "Run"
    /\ Exit(1)
    /\ UNCHANGED <<flag, installation, RequiredBenchmarks, InstalledBenchmarks, MaxRunningJobs,
                   Platform, benchmarksToRun, toBuild, List, runDir, status>>

\* err = exps.Run(r); err == nil
RunOk ==
    /\ pc = "run"
    /\ events' = Append(events, "Run")
    /\ status' = queued
    /\ pc' = "wait"
    /\ UNCHANGED <<err, flag, installation, RequiredBenchmarks, InstalledBenchmarks, MaxRunningJobs,
                   Platform, benchmarksToRun, toBuild, List, runDir, exitCode>>

\* exps.Wait(r) returns
WaitReturn ==
    /\ pc = "wait"
    /\ allTerminal
    /\ events' = Append(events, "Wait")
    /\ pc' = "fini"
    /\ UNCHANGED <<err, flag, installation, RequiredBenchmarks, InstalledBenchmarks, MaxRunningJobs,
                   Platform, benchmarksToRun, toBuild, List, runDir, status, exitCode>>

\* r.Fini()
Fini ==
    /\ pc = "fini"
    /\ events' = Append(events, "Fini")
    /\ pc' = "display"
    /\ UNCHANGED <<err, flag, installation, RequiredBenchmarks, InstalledBenchmarks, MaxRunningJobs,
                   Platform, benchmarksToRun, toBuild, List, runDir, status, exitCode>>

\* displayResults(cfg) returns an error
DisplayFail ==
    /\ pc = "display"
    /\ events' = Append(events, "displayResults")
    /\ err' = "displayResults"
    /\ Exit(1)
    /\ UNCHANGED <<flag, installation, RequiredBenchmarks, InstalledBenchmarks, MaxRunningJobs,
                   Platform, benchmarksToRun, toBuild, List, runDir, status>>

\* displayResults(cfg) succeeds and main returns
DisplayOk ==
    /\ pc = "display"
    /\ events' = Append(events, "displayResults")
    /\ Exit(0)
    /\ UNCHANGED <<err, flag, installation, RequiredBenchmarks, InstalledBenchmarks, MaxRunningJobs,
                   Platform, benchmarksToRun, toBuild, List, runDir, status>>

\* main() up to the end of the build loop
NextBuild ==
    \/ Help
    \/ NoHelp
    \/ LoadFail
    \/ LoadAndDetect
    \/ SanityWorkspaceFail
    \/ SanityJobsFail
    \/ SanityOk
    \/ Setup
    \/ SelectBenchmarks
    \/ BuildSuite
    \/ BuildDone

Next ==
    \/ NextBuild
    \/ RunDirExists
    \/ RunDirCreate
    \/ RunDirFail
    \/ RunFail
    \/ RunOk
    \/ Submit
    \/ Complete
    \/ Fail
    \/ WaitReturn
    \/ Fini
    \/ DisplayFail
    \/ DisplayOk

Spec == Init /\ [][Next]_vars

SpecFilter == InitFilter /\ [][NextBuild]_vars

(***************************************************************************)
(* Properties.                                                              *)
(***************************************************************************)
Has(e) == \E i \in 1..Len(events) : events[i] = e

Selected == Has("select")

Built == Has("build")

\* The five experiment names the specification calls point-to-point.
PointToPointNames ==
    {"osu_latency", "osu_bw", "osu_noncontig_mem_latency", "osu_noncontig_mem_bw",
     "smb_mpi_overhead"}

DerivedName(suite, sub) == suite \o "_" \o sub.Name

\* The descriptors of exps.List built from sub-benchmark sub of suite.
Descriptors(suite, sub) ==
    {i \in 1..Len(List) : List[i].Name = DerivedName(suite, sub)
                          /\ List[i].App.BinPath = sub.BinPath}

ForcedTopology(e) ==
    /\ e.Platform # NilPlatform
    /\ e.Platform[1].MaxPPR = 1
    /\ e.Platform[1].MaxNumNodes = 2

IsScenario ==
    /\ installation = ScenarioCatalog
    /\ RequiredBenchmarks = ScenarioRequired
    /\ ~flag.long
    /\ flag.ppn = 4
    /\ flag.numNodes = 8

ListNames == {List[i].Name : i \in 1..Len(List)}

\* C1 as stated: once the experiments are built, every sub-benchmark whose
\* own name is one of the five point-to-point names has a descriptor with
\* ranks-per-node 1 and 2 nodes; in the end-to-end scenario the set is
\* osu_osu_latency and smb_smb_mpi_overhead, both with that override.
C1_SubBenchmarkNameForcesTopology ==
    Built =>
        /\ \A suite \in DOMAIN benchmarksToRun :
            \A k \in 1..Len(benchmarksToRun[suite]) :
                LET sub == benchmarksToRun[suite][k]
                IN  sub.Name \in PointToPointNames =>
                        /\ Descriptors(suite, sub) # {}
                        /\ \A i \in Descriptors(suite, sub) : ForcedTopology(List[i])
        /\ IsScenario =>
            /\ Len(List) = 2
            /\ ListNames = {"osu_osu_latency", "smb_smb_mpi_overhead"}
            /\ \A i \in 1..Len(List) : ForcedTopology(List[i])

\* C1 amended: once the experiments are built, every sub-benchmark whose
\* derived name <suite>_<subbenchmark> is one of the five point-to-point names
\* has a descriptor with ranks-per-node 1 and 2 nodes whatever --ppn and
\* --num-nodes are; a sub-benchmark whose own name is one of the five gets no
\* override; in the end-to-end scenario the set is osu_osu_latency and
\* smb_smb_mpi_overhead, neither with an override.
C1_DerivedNameForcesTopology ==
    Built =>
        /\ \A suite \in DOMAIN benchmarksToRun :
            \A k \in 1..Len(benchmarksToRun[suite]) :
                LET sub == benchmarksToRun[suite][k]
                IN  /\ Descriptors(suite, sub) # {}
                    /\ DerivedName(suite, sub) \in PointToPointNames =>
                        \A i \in Descriptors(suite, sub) : ForcedTopology(List[i])
                    /\ sub.Name \in PointToPointNames =>
                        \A i \in Descriptors(suite, sub) : List[i].Platform = NilPlatform
        /\ IsScenario =>
            /\ Len(List) = 2
            /\ ListNames = {"osu_osu_latency", "smb_smb_mpi_overhead"}
            /\ \A i \in 1..Len(List) : List[i].Platform = NilPlatform

\* C1 witness: with --ppn=4 --num-nodes=8 the descriptor osu_latency, built
\* from sub-benchmark latency of suite osu, carries the override {1, 2}.
C1_Witness ==
    /\ Built
    /\ flag.ppn = 4
    /\ flag.numNodes = 8
    /\ \E i \in 1..Len(List) :
        /\ List[i].Name = "osu_latency"
        /\ ForcedTopology(List[i])

\* Names the classifier is probed with: the five, case variants, the empty
\* string, prefixed and unrelated names.
ProbeNames ==
    PointToPointNames \cup ListNames
        \cup {"", "OSU_LATENCY", "osu_Latency", "Osu_bw", "osu_osu_latency", "latency",
              "smb_smb_mpi_overhead", "mpi_overhead", "osu_allreduce"}

\* C2: once the experiments are built, every descriptor is named
\* <suite>_<subbenchmark>; if it is one of the five point-to-point names (and
\* for those names only the classifier answers true) it has an override with
\* ranks-per-node 1, 2 nodes and the global device and partition; otherwise it
\* has no override, and the global platform carries the flags.
C2_OverrideIffPointToPoint ==
    Built =>
        /\ \A n \in ProbeNames : experimentIsStrictlyPointToPoint(n) <=> n \in PointToPointNames
        /\ Platform = <<[Name |-> flag.p, Device |-> flag.d,
                         MaxPPR |-> flag.ppn, MaxNumNodes |-> flag.numNodes]>>
        /\ \A i \in 1..Len(List) :
            /\ \E suite \in DOMAIN benchmarksToRun :
                \E k \in 1..Len(benchmarksToRun[suite]) :
                    List[i].Name = DerivedName(suite, benchmarksToRun[suite][k])
            /\ IF List[i].Name \in PointToPointNames
               THEN List[i].Platform = <<[Name |-> flag.p, Device |-> flag.d,
                                          MaxPPR |-> 1, MaxNumNodes |-> 2]>>
               ELSE List[i].Platform = NilPlatform

\* C2 witness: a set with a point-to-point descriptor carrying partition batch
\* and device mlx5_0, and the case variant osu_LATENCY without override.
C2_Witness ==
    /\ Built
    /\ flag.p = "batch"
    /\ flag.d = "mlx5_0"
    /\ \E i \in 1..Len(List) :
        /\ List[i].Name = "smb_mpi_overhead"
        /\ List[i].Platform # NilPlatform
        /\ List[i].Platform[1].Name = "batch"
        /\ List[i].Platform[1].Device = "mlx5_0"
    /\ \E j \in 1..Len(List) :
        /\ List[j].Name = "osu_LATENCY"
        /\ List[j].Platform = NilPlatform

(***************************************************************************)
(* The required-set filter (short mode).                                    *)
(***************************************************************************)
NamesOf(subs) == [i \in 1..Len(subs) |-> subs[i].Name]

\* The sub-benchmarks installed for suite, none when the suite is absent.
InstalledIn(suite) ==
    IF suite \in DOMAIN installation THEN installation[suite] ELSE <<>>

InstalledNames(suite) == {InstalledIn(suite)[i].Name : i \in 1..Len(InstalledIn(suite))}

Count(x, s) == Cardinality({i \in 1..Len(s) : s[i] = x})

C5_AbsentSuiteYieldsEmptyList ==
    \A suite \in RequiredSuites :
        (~flag.long /\ suite \notin DOMAIN installation /\ RequiredBenchmarks[suite] # <<>>) =>
            /\ exitCode # 2
            /\ Selected => benchmarksToRun[suite] = <<>>

\* C7: in long mode the catalog is taken as it is, and once the experiments
\* are built the set holds exactly one descriptor per installed sub-benchmark
\* entry of every installed suite; in short mode the selection holds the
\* three filtered suites instead.
C7_LongModeRunsWholeCatalog ==
    /\ (Selected /\ flag.long) => benchmarksToRun = installation
    /\ (Selected /\ ~flag.long) => DOMAIN benchmarksToRun = RequiredSuites
    /\ (Built /\ flag.long) =>
        /\ \A suite \in DOMAIN installation :
            \A k \in 1..Len(installation[suite]) :
                LET sub == installation[suite][k]
                IN  Cardinality(Descriptors(suite, sub)) = Count(sub, installation[suite])
        /\ \A i \in 1..Len(List) :
            \E suite \in DOMAIN installation :
                \E k \in 1..Len(installation[suite]) :
                    i \in Descriptors(suite, installation[suite][k])

\* C7 witness: long mode, an empty required list for osu, and the set holds
\* osu_bw as well as imb_pingpong, a suite without a required list.
C7_Witness ==
    /\ Built
    /\ flag.long
    /\ RequiredBenchmarks["osu"] = <<>>
    /\ \E i \in 1..Len(List) : List[i].Name = "osu_bw"
    /\ \E i \in 1..Len(List) : List[i].Name = "imb_pingpong"
    /\ Len(List) = 4

(***************************************************************************)
(* The run.                                                                 *)
(***************************************************************************)
\* C6 as stated: with --max-running-jobs 0 or negative the process never
\* builds a descriptor, never touches the run directory, never calls Run,
\* and when it exits its status is 1.
C6_NonPositiveBoundExitsOne ==
    flag.maxRunningJobs <= 0 =>
        /\ List = <<>>
        /\ runDir = "unchecked"
        /\ ~Has("Run")
        /\ pc \in {"help", "load", "sanity", "exit"}
        /\ pc = "exit" => exitCode = 1

\* C6 amended: with --max-running-jobs 0 or negative the process never gets
\* past the sanity checks: it builds no descriptor, does not touch the run
\* directory and never calls Run; when it exits its status is 1, unless -h
\* was given, in which case it has printed the usage and exited with 0.
C6_NonPositiveBoundStopsBeforeBuild ==
    flag.maxRunningJobs <= 0 =>
        /\ List = <<>>
        /\ benchmarksToRun = <<>>
        /\ runDir = "unchecked"
        /\ events = <<>>
        /\ pc \in {"help", "load", "sanity", "exit"}
        /\ pc = "exit" => exitCode = IF flag.help THEN 0 ELSE 1

\* C6 witness: --max-running-jobs 0 without -h, the catalog detected, and the
\* process has exited with 1.
C6_Witness ==
    /\ flag.maxRunningJobs = 0
    /\ ~flag.help
    /\ InstalledBenchmarks = installation
    /\ installation = ScenarioCatalog
    /\ err = "nil"
    /\ pc = "exit"
    /\ exitCode = 1

\* C8: at any time at most --max-running-jobs experiments are submitted and
\* not yet terminal; the bound is positive whenever the runner has the set.
C8_AtMostMaxRunningJobs ==
    /\ Cardinality(running) <= flag.maxRunningJobs \/ running = {}
    /\ Has("Run") => flag.maxRunningJobs > 0

\* C8 witness: --max-running-jobs experiments are running and another is
\* still pending.
C8_Witness ==
    /\ pc = "wait"
    /\ flag.maxRunningJobs = 2
    /\ Cardinality(running) = 2
    /\ \E i \in DOMAIN status : status[i] = "pending"
    /\ \E i \in DOMAIN status : status[i] \in Terminal

Pipeline == <<"select", "build", "rundir", "Run", "Wait", "Fini", "displayResults">>

\* C9: main() goes through select, build, run directory, Run, Wait, Fini and
\* the report in that order; Run is called with the whole set built and the
\* run directory in place; once Wait has returned every experiment of the
\* set is completed or failed, so Fini and the report never start earlier.
C9_WaitReturnsWhenAllTerminal ==
    /\ Len(events) <= Len(Pipeline)
    /\ \A i \in 1..Len(events) : events[i] = Pipeline[i]
    /\ Has("Run") =>
        /\ toBuild = {}
        /\ runDir \in {"existing", "created"}
        /\ \A suite \in DOMAIN benchmarksToRun :
            \A k \in 1..Len(benchmarksToRun[suite]) :
                Descriptors(suite, benchmarksToRun[suite][k]) # {}
    /\ (pc \in {"fini", "display"} \/ Has("Wait") \/ Has("Fini") \/ Has("displayResults")) =>
        /\ Len(status) = Len(List)
        /\ \A i \in 1..Len(status) : status[i] \in Terminal

\* C9 witness: the report starts on a set of several experiments, one of
\* them completed and one failed.
C9_Witness ==
    /\ pc = "display"
    /\ Len(List) >= 2
    /\ \E i \in DOMAIN status : status[i] = "completed"
    /\ \E i \in DOMAIN status : status[i] = "failed"

\* C10: when Run returns an error the process has exited with 1 and Wait,
\* Fini and the report were never called; when an experiment has failed and
\* the process has exited, it went through Wait, Fini and the report, and its
\* status is 0 unless the report failed.
C10_OnlyRunErrorIsFatal ==
    /\ err = "Run" =>
        /\ pc = "exit"
        /\ exitCode = 1
        /\ ~Has("Wait")
        /\ ~Has("Fini")
        /\ ~Has("displayResults")
    /\ ((\E i \in DOMAIN status : status[i] = "failed") /\ pc = "exit") =>
        /\ events = Pipeline
        /\ exitCode = IF err = "displayResults" THEN 1 ELSE 0
        /\ err \in {"nil", "displayResults"}

\* C10 witness: an experiment failed and the process exited with 0.
C10_Witness ==
    /\ pc = "exit"
    /\ exitCode = 0
    /\ err = "nil"
    /\ \E i \in DOMAIN status : status[i] = "failed"

====
